---- MODULE Spec2Model ----
(***************************************************************************)
(* Model of the binpacker package (src/binpacker.go): a binary tree of     *)
(* used and free rectangles of a bin, with New, Insert, Enlarge and        *)
(* Occupancy.  The tree is a nested record; a *node pointer is a sequence  *)
(* of length 0 (nil) or 1 (the node pointed to).                           *)
(***************************************************************************)
EXTENDS Integers, Sequences, FiniteSets, TLC

VARIABLES root, binWidth, binHeight, returned, enlarged, last, suite

vars == <<root, binWidth, binHeight, returned, enlarged, last, suite>>

(***************************************************************************)
(* Bounds of the model.                                                    *)
(***************************************************************************)
\* New, Insert and Enlarge are called with width and height in 0..MaxDim.
MaxDim == 2
\* At most MaxOps calls that change the packer (successful Insert or Enlarge).
MaxOps == 3

(***************************************************************************)
(* Data: Rect, node, nil.                                                  *)
(***************************************************************************)
NIL == <<>>

Rect(x, y, w, h) == [X |-> x, Y |-> y, Width |-> w, Height |-> h]

ZeroRect == Rect(0, 0, 0, 0)

\* &node{Rect: r}: a node without children.
node(r) == [X |-> r.X, Y |-> r.Y, Width |-> r.Width, Height |-> r.Height,
            left |-> NIL, right |-> NIL]

\* n.Rect, the embedded Rect of a node.
RectOf(n) == Rect(n.X, n.Y, n.Width, n.Height)

Ptr(n) == <<n>>

ErrNil == "nil"
ErrNoMoreSpace == "insert: no more space in bin"
ErrEnlarge == "enlarge: new size is smaller"

(***************************************************************************)
(* insert: the recursive search and split.  The result carries the node    *)
(* as the call leaves it (n), and newNode, the Rect of the node that was   *)
(* split (NIL when the Go function returns a nil *node).                   *)
(***************************************************************************)
\* split with a tie restW = restH cut horizontally instead of vertically.
splitTieHorizontal(n, width, height) ==
    LET restW == n.Width - width
        restH == n.Height - height
    IN  IF restW <= restH
        THEN [n EXCEPT
                !.left = Ptr(node(Rect(n.X + width, n.Y, restW, height))),
                !.right = Ptr(node(Rect(n.X, n.Y + height, n.Width, restH))),
                !.Width = width, !.Height = height]
        ELSE [n EXCEPT
                !.left = Ptr(node(Rect(n.X, n.Y + height, width, restH))),
                !.right = Ptr(node(Rect(n.X + width, n.Y, restW, n.Height))),
                !.Width = width, !.Height = height]

\* split without the final shrink of the node to the occupied rectangle.
splitNoShrink(n, width, height) ==
    LET restW == n.Width - width
        restH == n.Height - height
    IN  IF restW < restH
        THEN [n EXCEPT
                !.left = Ptr(node(Rect(n.X + width, n.Y, restW, height))),
                !.right = Ptr(node(Rect(n.X, n.Y + height, n.Width, restH)))]
        ELSE [n EXCEPT
                !.left = Ptr(node(Rect(n.X, n.Y + height, width, restH))),
                !.right = Ptr(node(Rect(n.X + width, n.Y, restW, n.Height)))]

\* split that leaves out a child of zero area.
splitPruneEmpty(n, width, height) ==
    LET restW == n.Width - width
        restH == n.Height - height
        kept(r) == IF r.Width * r.Height = 0 THEN NIL ELSE Ptr(node(r))
    IN  IF restW < restH
        THEN [n EXCEPT
                !.left = kept(Rect(n.X + width, n.Y, restW, height)),
                !.right = kept(Rect(n.X, n.Y + height, n.Width, restH)),
                !.Width = width, !.Height = height]
        ELSE [n EXCEPT
                !.left = kept(Rect(n.X, n.Y + height, width, restH)),
                !.right = kept(Rect(n.X + width, n.Y, restW, n.Height)),
                !.Width = width, !.Height = height]

\* The leaf n after a rectangle of width x height has been placed in it.
split(n, width, height) ==
    LET restW == n.Width - width
        restH == n.Height - height
    IN  IF restW < restH
        THEN [n EXCEPT
                !.left = Ptr(node(Rect(n.X + width, n.Y, restW, height))),
                !.right = Ptr(node(Rect(n.X, n.Y + height, n.Width, restH))),
                !.Width = width, !.Height = height]
        ELSE [n EXCEPT
                !.left = Ptr(node(Rect(n.X, n.Y + height, width, restH))),
                !.right = Ptr(node(Rect(n.X + width, n.Y, restW, n.Height))),
                !.Width = width, !.Height = height]

\* The size check with "and" for "or".
tooBigBoth(n, width, height) == width > n.Width /\ height > n.Height

\* The size check without its height half.
tooBigWidthOnly(n, width, height) == width > n.Width

\* The size check of a leaf: TRUE when the rectangle does not fit.
tooBig(n, width, height) == width > n.Width \/ height > n.Height

\* insert at a leaf that attaches the children before the size check.
placeSplitFirst(n, width, height) ==
    LET s == split(n, width, height)
    IN  IF tooBig(n, width, height)
        THEN [n |-> [n EXCEPT !.left = s.left, !.right = s.right],
              newNode |-> NIL]
        ELSE [n |-> s, newNode |-> Ptr(RectOf(s))]

\* insert at a leaf: the size check, then the split.
place(n, width, height) ==
    IF tooBig(n, width, height)
    THEN [n |-> n, newNode |-> NIL]
    ELSE LET s == split(n, width, height)
         IN  [n |-> s, newNode |-> Ptr(RectOf(s))]

\* insert that searches the right subtree before the left one.
RECURSIVE insertRightFirst(_, _, _)
insertRightFirst(n, width, height) ==
    IF n.left # NIL \/ n.right # NIL
    THEN LET r == IF n.right # NIL
                  THEN insertRightFirst(n.right[1], width, height)
                  ELSE [n |-> n, newNode |-> NIL]
         IN  IF r.newNode # NIL
             THEN [n |-> [n EXCEPT !.right = Ptr(r.n)], newNode |-> r.newNode]
             ELSE LET l == IF n.left # NIL
                           THEN insertRightFirst(n.left[1], width, height)
                           ELSE [n |-> n, newNode |-> NIL]
                  IN  IF l.newNode # NIL
                      THEN [n |-> [n EXCEPT !.left = Ptr(l.n)],
                            newNode |-> l.newNode]
                      ELSE [n |-> n, newNode |-> NIL]
    ELSE place(n, width, height)

RECURSIVE insert(_, _, _)
insert(n, width, height) ==
    IF n.left # NIL \/ n.right # NIL
    THEN LET l == IF n.left # NIL
                  THEN insert(n.left[1], width, height)
                  ELSE [n |-> n, newNode |-> NIL]
         IN  IF l.newNode # NIL
             THEN [n |-> [n EXCEPT !.left = Ptr(l.n)], newNode |-> l.newNode]
             ELSE LET nl == IF n.left # NIL
                            THEN [n EXCEPT !.left = Ptr(l.n)]
                            ELSE n
                      r == IF nl.right # NIL
                           THEN insert(nl.right[1], width, height)
                           ELSE [n |-> nl, newNode |-> NIL]
                  IN  IF r.newNode # NIL
                      THEN [n |-> [nl EXCEPT !.right = Ptr(r.n)],
                            newNode |-> r.newNode]
                      ELSE [n |-> IF nl.right # NIL
                                  THEN [nl EXCEPT !.right = Ptr(r.n)]
                                  ELSE nl,
                            newNode |-> NIL]
    ELSE place(n, width, height)

(***************************************************************************)
(* usedArea and Occupancy.  Occupancy is the float64 quotient              *)
(* usedArea / (binWidth*binHeight); the model keeps its numerator and      *)
(* denominator.                                                            *)
(***************************************************************************)
\* usedArea that counts the free leaves as used too.
RECURSIVE usedAreaLeaves(_)
usedAreaLeaves(n) ==
    n.Width * n.Height
    + (IF n.left # NIL THEN usedAreaLeaves(n.left[1]) ELSE 0)
    + (IF n.right # NIL THEN usedAreaLeaves(n.right[1]) ELSE 0)

RECURSIVE usedArea(_)
usedArea(n) ==
    IF n.left # NIL \/ n.right # NIL
    THEN n.Width * n.Height
         + (IF n.left # NIL THEN usedArea(n.left[1]) ELSE 0)
         + (IF n.right # NIL THEN usedArea(n.right[1]) ELSE 0)
    ELSE 0

Occupancy == [num |-> usedArea(root), den |-> binWidth * binHeight]

(***************************************************************************)
(* The callers.  suite = "grid" draws every argument from 0..MaxDim on a   *)
(* bin of at most MaxDim x MaxDim; suite = "scenario" replays the calls of *)
(* TestEnlarge and of the documented scenarios on their bins.              *)
(***************************************************************************)
GridBins == (0..MaxDim) \X (0..MaxDim)
GridArgs == (0..MaxDim) \X (0..MaxDim)

ScenarioBins == {<<4, 4>>, <<5, 5>>, <<10, 10>>}
ScenarioInserts == {<<3, 3>>, <<1, 4>>, <<1, 1>>, <<15, 15>>, <<10, 10>>}
ScenarioEnlarges == {<<20, 20>>, <<4, 4>>}

InsertArgs == IF suite = "grid" THEN GridArgs ELSE ScenarioInserts
EnlargeArgs == IF suite = "grid" THEN GridArgs ELSE ScenarioEnlarges

\* The packer as the caller can observe it.
Packer == [root |-> root, binWidth |-> binWidth, binHeight |-> binHeight]

\* Number of calls so far that changed the packer.
Changes == Len(returned) + enlarged.count

\* The caller goes on calling while no call has returned an error and fewer
\* than MaxOps calls have changed the packer.  A call that returns an error
\* leaves the packer as it was before the call (InsertFailureUnchanged and
\* EnlargeFailureUnchanged below), so the calls that could follow it are the
\* calls explored from the state before it.
Running == last.err = ErrNil /\ Changes < MaxOps

(***************************************************************************)
(* New(width, height)                                                      *)
(***************************************************************************)
New(width, height) ==
    /\ root = node(Rect(0, 0, width, height))
    /\ binWidth = width
    /\ binHeight = height

Init ==
    /\ suite \in {"grid", "scenario"}
    /\ \E b \in (IF suite = "grid" THEN GridBins ELSE ScenarioBins) :
          /\ New(b[1], b[2])
          /\ last = [op |-> "New", width |-> b[1], height |-> b[2],
                     err |-> ErrNil, rect |-> ZeroRect,
                     pre |-> [root |-> node(Rect(0, 0, b[1], b[2])),
                              binWidth |-> b[1], binHeight |-> b[2]]]
    /\ returned = <<>>
    /\ enlarged = [count |-> 0, oldWidth |-> 0, oldHeight |-> 0, at |-> 0]

(***************************************************************************)
(* Packer.Insert(width, height)                                            *)
(***************************************************************************)
Insert(width, height) ==
    /\ Running
    /\ LET res == insert(root, width, height)
           err == IF res.newNode = NIL THEN ErrNoMoreSpace ELSE ErrNil
           rect == IF res.newNode = NIL THEN ZeroRect ELSE res.newNode[1]
       IN  /\ root' = res.n
           /\ returned' = IF err = ErrNil THEN Append(returned, rect)
                          ELSE returned
           /\ last' = [op |-> "Insert", width |-> width, height |-> height,
                       err |-> err, rect |-> rect, pre |-> Packer]
    /\ UNCHANGED <<binWidth, binHeight, enlarged, suite>>

(***************************************************************************)
(* Packer.Enlarge(newWidth, newHeight)                                     *)
(***************************************************************************)
\* The size check of Enlarge with "and" for "or".
tooSmallBoth(newWidth, newHeight) ==
    newWidth < binWidth /\ newHeight < binHeight

\* The size check of Enlarge that refuses the current size too.
tooSmallOrEqual(newWidth, newHeight) ==
    newWidth <= binWidth \/ newHeight <= binHeight

tooSmall(newWidth, newHeight) ==
    newWidth < binWidth \/ newHeight < binHeight

\* The new root with the right strip as tall as the new bin.
enlargedRootTallRight(newWidth, newHeight) ==
    [X |-> 0, Y |-> 0, Width |-> newWidth, Height |-> newHeight,
     left |-> Ptr(node(Rect(0, binHeight, newWidth, newHeight - binHeight))),
     right |-> Ptr(node(Rect(binWidth, 0, newWidth - binWidth, newHeight)))]

\* The new root with the added rows put at the top of the bin.
enlargedRootTop(newWidth, newHeight) ==
    [X |-> 0, Y |-> 0, Width |-> newWidth, Height |-> newHeight,
     left |-> Ptr(node(Rect(0, 0, newWidth, newHeight - binHeight))),
     right |-> Ptr(node(Rect(binWidth, 0, newWidth - binWidth, binHeight)))]

\* The new root with its two children swapped.
enlargedRootSwapped(newWidth, newHeight) ==
    [X |-> 0, Y |-> 0, Width |-> newWidth, Height |-> newHeight,
     left |-> Ptr(node(Rect(binWidth, 0, newWidth - binWidth, binHeight))),
     right |-> Ptr(node(Rect(0, binHeight, newWidth, newHeight - binHeight)))]

\* The new root with the old tree kept as its left child.
enlargedRootKeepOld(newWidth, newHeight) ==
    [X |-> 0, Y |-> 0, Width |-> newWidth, Height |-> newHeight,
     left |-> Ptr(root),
     right |-> Ptr(node(Rect(binWidth, 0, newWidth - binWidth, binHeight)))]

enlargedRoot(newWidth, newHeight) ==
    [X |-> 0, Y |-> 0, Width |-> newWidth, Height |-> newHeight,
     left |-> Ptr(node(Rect(0, binHeight, newWidth, newHeight - binHeight))),
     right |-> Ptr(node(Rect(binWidth, 0, newWidth - binWidth, binHeight)))]

Enlarge(newWidth, newHeight) ==
    /\ Running
    /\ IF tooSmall(newWidth, newHeight)
       THEN /\ last' = [op |-> "Enlarge", width |-> newWidth,
                        height |-> newHeight, err |-> ErrEnlarge,
                        rect |-> ZeroRect, pre |-> Packer]
            /\ UNCHANGED <<root, binWidth, binHeight, enlarged>>
       ELSE /\ root' = enlargedRoot(newWidth, newHeight)
            /\ binWidth' = newWidth
            /\ binHeight' = newHeight
            /\ enlarged' = [count |-> enlarged.count + 1,
                            oldWidth |-> binWidth, oldHeight |-> binHeight,
                            at |-> Len(returned)]
            /\ last' = [op |-> "Enlarge", width |-> newWidth,
                        height |-> newHeight, err |-> ErrNil,
                        rect |-> ZeroRect, pre |-> Packer]
    /\ UNCHANGED <<returned, suite>>

Next ==
    \/ \E a \in InsertArgs : Insert(a[1], a[2])
    \/ \E a \in EnlargeArgs : Enlarge(a[1], a[2])

Spec == Init /\ [][Next]_vars

(***************************************************************************)
(* The callers that pass arbitrary integers: width and height of Insert    *)
(* and Enlarge range over -1..MaxDim, on the bins of Init.                 *)
(***************************************************************************)
IntArgs == ((-1)..MaxDim) \X ((-1)..MaxDim)

NextInt ==
    \/ \E a \in IntArgs : Insert(a[1], a[2])
    \/ \E a \in IntArgs : Enlarge(a[1], a[2])

SpecInt == Init /\ [][NextInt]_vars

(***************************************************************************)
(* Vocabulary of the properties.                                           *)
(***************************************************************************)
Min(a, b) == IF a < b THEN a ELSE b
Max(a, b) == IF a > b THEN a ELSE b

Area(r) == r.Width * r.Height

\* Two rectangles share positive area: their intersection has positive
\* width and positive height.
SharePositiveArea(a, b) ==
    /\ Min(a.X + a.Width, b.X + b.Width) - Max(a.X, b.X) > 0
    /\ Min(a.Y + a.Height, b.Y + b.Height) - Max(a.Y, b.Y) > 0

InsideBin(r) ==
    /\ r.X >= 0
    /\ r.Y >= 0
    /\ r.X + r.Width <= binWidth
    /\ r.Y + r.Height <= binHeight

RECURSIVE SumArea(_)
SumArea(rs) == IF rs = <<>> THEN 0 ELSE Area(Head(rs)) + SumArea(Tail(rs))

InsertFailed == last.op = "Insert" /\ last.err # ErrNil
InsertSucceeded == last.op = "Insert" /\ last.err = ErrNil
EnlargeFailed == last.op = "Enlarge" /\ last.err # ErrNil
EnlargeSucceeded == last.op = "Enlarge" /\ last.err = ErrNil

\* The rectangles returned before the last call.
ReturnedBefore ==
    IF InsertSucceeded THEN SubSeq(returned, 1, Len(returned) - 1)
    ELSE returned

\* The bin as it was before the last successful Enlarge.
OldBin == Rect(0, 0, enlarged.oldWidth, enlarged.oldHeight)

(***************************************************************************)
(* C1: the rectangles returned by the successful Inserts so far, those     *)
(* returned before an Enlarge included, pairwise share no positive area,   *)
(* and each lies inside the current bin.                                   *)
(***************************************************************************)
NoOverlapInsideBin ==
    \A i \in 1..Len(returned) :
        /\ InsideBin(returned[i])
        /\ \A j \in (i + 1)..Len(returned) :
              ~SharePositiveArea(returned[i], returned[j])

\* Two rectangles of positive area, one returned before an Enlarge and one
\* after it.
NoOverlapWitness ==
    /\ enlarged.count > 0
    /\ enlarged.at >= 1
    /\ Len(returned) > enlarged.at
    /\ Area(returned[1]) > 0
    /\ Area(returned[Len(returned)]) > 0

(***************************************************************************)
(* C2: a failed Insert returns ErrNoMoreSpace and the zero Rect, and       *)
(* leaves the tree, binWidth and binHeight as they were before the call.   *)
(***************************************************************************)
InsertFailureUnchanged ==
    InsertFailed =>
        /\ last.err = ErrNoMoreSpace
        /\ last.rect = ZeroRect
        /\ Packer = last.pre

\* A failed Insert on a tree that has interior nodes and a leaf of
\* positive area.
InsertFailureWitness ==
    /\ InsertFailed
    /\ Len(returned) >= 1
    /\ usedArea(root) < binWidth * binHeight

(***************************************************************************)
(* C3: on a bin of positive area the value of Occupancy lies in [0,1]:     *)
(* 0 <= usedArea <= binWidth*binHeight.  The code breaks it: the root that *)
(* Enlarge builds is an interior node of the size of the whole new bin, so *)
(* usedArea counts the whole bin as used and every later Insert adds to    *)
(* it.                                                                     *)
(***************************************************************************)
\* The bin has had positive area since New (at most one Enlarge so far).
PositiveBins ==
    /\ Occupancy.den > 0
    /\ enlarged.count <= 1
    /\ enlarged.count = 1 => Area(OldBin) > 0

OccupancyInUnitInterval ==
    PositiveBins =>
        /\ 0 <= Occupancy.num
        /\ Occupancy.num <= Occupancy.den

(***************************************************************************)
(* C4: Enlarge with newWidth < binWidth or newHeight < binHeight returns   *)
(* an error and leaves binWidth, binHeight and the tree unchanged (so      *)
(* insert and usedArea, which read nothing else, go on as before).         *)
(***************************************************************************)
EnlargeFailureUnchanged ==
    (/\ last.op = "Enlarge"
     /\ (last.width < last.pre.binWidth \/ last.height < last.pre.binHeight))
    => /\ last.err = ErrEnlarge
       /\ Packer = last.pre

\* An Enlarge that is too narrow but not too low, refused on a bin that
\* holds a rectangle.
EnlargeFailureWitness ==
    /\ EnlargeFailed
    /\ last.width < binWidth
    /\ last.height > binHeight
    /\ Len(returned) >= 1

(***************************************************************************)
(* C5: after a successful Enlarge of a bin of size (bw,bh), no rectangle   *)
(* returned by a later Insert shares positive area with the old bin        *)
(* [0,bw) x [0,bh), however much of the old bin was free.                  *)
(***************************************************************************)
OldBinNeverReused ==
    enlarged.count > 0 =>
        \A i \in (enlarged.at + 1)..Len(returned) :
            ~SharePositiveArea(returned[i], OldBin)

\* An old bin of positive area that was completely empty when it was
\* enlarged, and a rectangle of positive area returned afterwards.
OldBinWitness ==
    /\ enlarged.count = 1
    /\ enlarged.at = 0
    /\ Area(OldBin) > 0
    /\ Len(returned) >= 1
    /\ Area(returned[1]) > 0

(***************************************************************************)
(* C6: a successful Enlarge(nw,nh) of a bin of size (bw,bh) sets the bin   *)
(* size to (nw,nh) and makes the root an interior node with the two leaf   *)
(* children left = (0,bh,nw,nh-bh) and right = (bw,0,nw-bw,bh).  The first *)
(* Insert(w,h) after it succeeds iff (w <= nw and h <= nh-bh) or           *)
(* (w <= nw-bw and h <= bh), and returns (0,bh,w,h) in the first case and  *)
(* (bw,0,w,h) otherwise.  New(5,5); Enlarge(20,20); Insert(15,15) returns  *)
(* Rect{0,5,15,15}.                                                        *)
(***************************************************************************)
\* The last call is an Insert on the tree a successful Enlarge has just
\* built: no Insert has succeeded in between.
FirstInsertAfterEnlarge ==
    /\ last.op = "Insert"
    /\ enlarged.count > 0
    /\ Len(ReturnedBefore) = enlarged.at

FitsBelow ==
    /\ last.width <= binWidth
    /\ last.height <= binHeight - enlarged.oldHeight

FitsRight ==
    /\ last.width <= binWidth - enlarged.oldWidth
    /\ last.height <= enlarged.oldHeight

EnlargeThenInsert ==
    /\ EnlargeSucceeded =>
          /\ binWidth = last.width
          /\ binHeight = last.height
          /\ root.left # NIL
          /\ root.right # NIL
          /\ root.left[1] = node(Rect(0, last.pre.binHeight, last.width,
                                      last.height - last.pre.binHeight))
          /\ root.right[1] = node(Rect(last.pre.binWidth, 0,
                                       last.width - last.pre.binWidth,
                                       last.pre.binHeight))
    /\ FirstInsertAfterEnlarge =>
          /\ last.err = ErrNil <=> (FitsBelow \/ FitsRight)
          /\ last.err = ErrNil =>
                last.rect = IF FitsBelow
                            THEN Rect(0, enlarged.oldHeight,
                                      last.width, last.height)
                            ELSE Rect(enlarged.oldWidth, 0,
                                      last.width, last.height)
    /\ (/\ FirstInsertAfterEnlarge
        /\ enlarged.count = 1
        /\ OldBin = Rect(0, 0, 5, 5)
        /\ binWidth = 20
        /\ binHeight = 20
        /\ last.width = 15
        /\ last.height = 15)
       => /\ last.err = ErrNil
          /\ last.rect = Rect(0, 5, 15, 15)

\* New(5,5); Enlarge(20,20); Insert(15,15) has returned.
EnlargeThenInsertWitness ==
    /\ FirstInsertAfterEnlarge
    /\ enlarged = [count |-> 1, oldWidth |-> 5, oldHeight |-> 5, at |-> 0]
    /\ binWidth = 20
    /\ binHeight = 20
    /\ last.width = 15
    /\ last.height = 15
    /\ returned = <<Rect(0, 5, 15, 15)>>

(***************************************************************************)
(* C7, as the specification states it: on a fresh 4x4 bin Insert(3,3)      *)
(* returns Rect{0,0,3,3}; an Insert(1,4) issued right after it fails with  *)
(* the no-space error, and an Insert(1,1) issued right after the           *)
(* Insert(3,3) succeeds.                                                   *)
(***************************************************************************)
Fresh4x4 == [root |-> node(Rect(0, 0, 4, 4)), binWidth |-> 4, binHeight |-> 4]

\* The last call is Insert(width, height) on a fresh 4x4 bin.
OnFresh4x4(width, height) ==
    /\ last.op = "Insert"
    /\ last.pre = Fresh4x4
    /\ last.width = width
    /\ last.height = height

\* The last call is Insert(width, height), issued right after Insert(3,3)
\* has succeeded on a fresh 4x4 bin.
After3x3(width, height) ==
    /\ last.op = "Insert"
    /\ last.pre.binWidth = 4
    /\ last.pre.binHeight = 4
    /\ ReturnedBefore = <<Rect(0, 0, 3, 3)>>
    /\ enlarged.count = 0
    /\ last.width = width
    /\ last.height = height

Scenario4x4AsStated ==
    /\ OnFresh4x4(3, 3) => last.err = ErrNil /\ last.rect = Rect(0, 0, 3, 3)
    /\ After3x3(1, 4) => last.err = ErrNoMoreSpace
    /\ After3x3(1, 1) => last.err = ErrNil

(***************************************************************************)
(* C7, amended: on a fresh 4x4 bin Insert(3,3) returns Rect{0,0,3,3}; the  *)
(* tie restW = restH = 1 cuts vertically, which leaves the leaves          *)
(* (0,3,3,1) and (3,0,1,4); an Insert(1,4) issued right after it succeeds  *)
(* and returns Rect{3,0,1,4}, and an Insert(1,1) issued right after the    *)
(* Insert(3,3) succeeds and returns Rect{0,3,1,1}.                         *)
(***************************************************************************)
Scenario4x4 ==
    /\ OnFresh4x4(3, 3) => last.err = ErrNil /\ last.rect = Rect(0, 0, 3, 3)
    /\ After3x3(1, 4) => last.err = ErrNil /\ last.rect = Rect(3, 0, 1, 4)
    /\ After3x3(1, 1) => last.err = ErrNil /\ last.rect = Rect(0, 3, 1, 1)

\* Insert(1,4) has been issued right after Insert(3,3) on a fresh 4x4 bin.
Scenario4x4Witness ==
    /\ After3x3(1, 4)
    /\ returned[1] = Rect(0, 0, 3, 3)

(***************************************************************************)
(* C8: an Insert(w,h) with w > binWidth or h > binHeight fails with the    *)
(* no-space error, and the areas of the rectangles returned so far sum to  *)
(* at most binWidth*binHeight (so a sequence of Inserts that asks for more *)
(* area than the bin has contains a failing Insert).                       *)
(***************************************************************************)
Exhaustion ==
    /\ (/\ last.op = "Insert"
        /\ (last.width > last.pre.binWidth \/ last.height > last.pre.binHeight))
       => last.err = ErrNoMoreSpace
    /\ SumArea(returned) <= binWidth * binHeight

\* An Insert wider than the bin, but not taller, has been refused by a bin
\* that is enlarged and filled to the last cell.
ExhaustionWitness ==
    /\ InsertFailed
    /\ last.width > binWidth
    /\ last.height <= binHeight
    /\ enlarged.count > 0
    /\ SumArea(returned) = binWidth * binHeight
    /\ binWidth * binHeight > 0

(***************************************************************************)
(* C9: the used area is 0 on a freshly constructed bin, is unchanged by a  *)
(* failed Insert and does not decrease on a successful one.                *)
(***************************************************************************)
OccupancyMonotone ==
    /\ last.op = "New" => usedArea(root) = 0
    /\ InsertFailed => usedArea(root) = usedArea(last.pre.root)
    /\ InsertSucceeded => usedArea(root) >= usedArea(last.pre.root)

\* A successful Insert has raised a used area that was positive already.
OccupancyMonotoneWitness ==
    /\ InsertSucceeded
    /\ usedArea(last.pre.root) > 0
    /\ usedArea(root) > usedArea(last.pre.root)

(***************************************************************************)
(* C10: with Insert calls only (no Enlarge), usedArea equals the sum of    *)
(* Width*Height of the rectangles returned; when that sum equals           *)
(* binWidth*binHeight > 0, Occupancy is exactly 1 and every further        *)
(* Insert(w,h) with w >= 1 and h >= 1 fails.  On a 10x10 bin Insert(10,10) *)
(* succeeds and Insert(1,1) then fails.                                    *)
(***************************************************************************)
\* Before the last call the returned rectangles covered the bin's area.
WasFull ==
    /\ last.pre.binWidth * last.pre.binHeight > 0
    /\ SumArea(ReturnedBefore) = last.pre.binWidth * last.pre.binHeight

UsedAreaIsReturnedArea ==
    enlarged.count = 0 =>
        /\ usedArea(root) = SumArea(returned)
        /\ (Occupancy.den > 0 /\ SumArea(returned) = Occupancy.den)
           => Occupancy.num = Occupancy.den
        /\ (/\ last.op = "Insert"
            /\ last.width >= 1
            /\ last.height >= 1
            /\ WasFull)
           => last.err = ErrNoMoreSpace
        /\ (/\ last.op = "Insert"
            /\ last.pre = [root |-> node(Rect(0, 0, 10, 10)),
                           binWidth |-> 10, binHeight |-> 10]
            /\ last.width = 10
            /\ last.height = 10)
           => last.err = ErrNil /\ usedArea(root) = 100

\* On a 10x10 bin Insert(10,10) has succeeded and Insert(1,1) has been
\* issued after it.
FullBinWitness ==
    /\ enlarged.count = 0
    /\ binWidth = 10
    /\ binHeight = 10
    /\ returned = <<Rect(0, 0, 10, 10)>>
    /\ last.op = "Insert"
    /\ last.width = 1
    /\ last.height = 1
    /\ last.err = ErrNoMoreSpace
    /\ Occupancy.num = Occupancy.den

(***************************************************************************)
(* C11, as the specification states it: a bin constructed with             *)
(* binWidth = 0 or binHeight = 0 never admits a successful Insert; every   *)
(* Insert(w,h) with w >= 0 and h >= 0, Insert(0,0) included, fails with    *)
(* the no-space error.                                                     *)
(***************************************************************************)
\* The bin is the one New built, and it has no area.
DegenerateBin ==
    /\ enlarged.count = 0
    /\ (binWidth = 0 \/ binHeight = 0)

DegenerateBinAsStated ==
    (DegenerateBin /\ last.op = "Insert") => last.err = ErrNoMoreSpace

(***************************************************************************)
(* C11, amended: on a bin constructed with binWidth = 0 or binHeight = 0   *)
(* every Insert(w,h) with w >= 1 and h >= 1 fails with the no-space error, *)
(* after any sequence of prior Insert calls; a request of zero area can    *)
(* succeed, and Insert(0,0) always does.                                   *)
(***************************************************************************)
DegenerateBinRefusesArea ==
    /\ (/\ DegenerateBin
        /\ last.op = "Insert"
        /\ last.width >= 1
        /\ last.height >= 1)
       => last.err = ErrNoMoreSpace
    /\ (/\ DegenerateBin
        /\ last.op = "Insert"
        /\ last.width = 0
        /\ last.height = 0)
       => last.err = ErrNil /\ Area(last.rect) = 0

\* A bin of width 0 and positive height has taken an Insert and then
\* refused one of positive area that is not taller than the bin.
DegenerateBinWitness ==
    /\ DegenerateBin
    /\ binHeight > 0
    /\ Len(returned) >= 1
    /\ InsertFailed
    /\ last.width >= 1
    /\ last.height >= 1
    /\ last.height <= binHeight

(***************************************************************************)
(* C12: Insert(w,h) is first-fit in depth-first, left-before-right order:  *)
(* it succeeds iff some leaf has Width >= w and Height >= h, the leaf that *)
(* is split is the first such leaf of the traversal, and the returned Rect *)
(* has that leaf's X and Y and Width = w, Height = h.                      *)
(***************************************************************************)
\* The rects of the leaves below n, in depth-first, left-before-right order.
RECURSIVE Leaves(_)
Leaves(n) ==
    IF n.left = NIL /\ n.right = NIL
    THEN <<RectOf(n)>>
    ELSE (IF n.left # NIL THEN Leaves(n.left[1]) ELSE <<>>)
         \o (IF n.right # NIL THEN Leaves(n.right[1]) ELSE <<>>)

Fits(r, width, height) == r.Width >= width /\ r.Height >= height

\* The index of the first rect of ls that width x height fits, 0 if none.
FirstFit(ls, width, height) ==
    IF \E i \in 1..Len(ls) : Fits(ls[i], width, height)
    THEN CHOOSE i \in 1..Len(ls) :
            /\ Fits(ls[i], width, height)
            /\ \A j \in 1..(i - 1) : ~Fits(ls[j], width, height)
    ELSE 0

\* The leaves before the last call, and the first of them the request fits.
LeavesBefore == Leaves(last.pre.root)
Chosen == FirstFit(LeavesBefore, last.width, last.height)

FirstFitOrder ==
    last.op = "Insert" =>
        /\ last.err = ErrNil <=> Chosen # 0
        /\ Chosen # 0 =>
              /\ last.rect = Rect(LeavesBefore[Chosen].X, LeavesBefore[Chosen].Y,
                                  last.width, last.height)
              /\ Len(Leaves(root)) = Len(LeavesBefore) + 1
              /\ SubSeq(Leaves(root), 1, Chosen - 1)
                 = SubSeq(LeavesBefore, 1, Chosen - 1)
              /\ SubSeq(Leaves(root), Chosen + 2, Len(Leaves(root)))
                 = SubSeq(LeavesBefore, Chosen + 1, Len(LeavesBefore))

\* A successful Insert that passed over a leaf too small for it and took a
\* leaf although a later leaf of smaller area would have fitted too.
FirstFitWitness ==
    /\ InsertSucceeded
    /\ last.width >= 1
    /\ last.height >= 1
    /\ Chosen > 1
    /\ \E j \in (Chosen + 1)..Len(LeavesBefore) :
          /\ Fits(LeavesBefore[j], last.width, last.height)
          /\ Area(LeavesBefore[j]) < Area(LeavesBefore[Chosen])

(***************************************************************************)
(* C13: when Insert(w,h) splits a leaf (x,y,lw,lh), with restW = lw-w and  *)
(* restH = lh-h: if restW < restH the new left child is (x+w,y,restW,h)    *)
(* and the new right child is (x,y+h,lw,restH); otherwise, ties included,  *)
(* the new left child is (x,y+h,w,restH) and the new right child is        *)
(* (x+w,y,restW,lh).  Children of zero area are created and kept.          *)
(***************************************************************************)
IsLeaf(n) == n.left = NIL /\ n.right = NIL
IsInterior(n) == n.left # NIL /\ n.right # NIL

\* Every node below n has two children or none.
RECURSIVE TwoOrNone(_)
TwoOrNone(n) ==
    \/ IsLeaf(n)
    \/ /\ IsInterior(n)
       /\ TwoOrNone(n.left[1])
       /\ TwoOrNone(n.right[1])

\* The pairs <<leaf of the tree before, node at the same place after>> at
\* the places where a leaf has become an interior node.
RECURSIVE Splits(_, _)
Splits(before, after) ==
    IF IsLeaf(before)
    THEN IF IsLeaf(after) THEN {} ELSE {<<before, after>>}
    ELSE IF IsInterior(before) /\ IsInterior(after)
         THEN Splits(before.left[1], after.left[1])
              \cup Splits(before.right[1], after.right[1])
         ELSE {}

\* The children the claim gives a leaf that is split by width x height.
ClaimedLeft(leaf, width, height) ==
    IF leaf.Width - width < leaf.Height - height
    THEN Rect(leaf.X + width, leaf.Y, leaf.Width - width, height)
    ELSE Rect(leaf.X, leaf.Y + height, width, leaf.Height - height)

ClaimedRight(leaf, width, height) ==
    IF leaf.Width - width < leaf.Height - height
    THEN Rect(leaf.X, leaf.Y + height, leaf.Width, leaf.Height - height)
    ELSE Rect(leaf.X + width, leaf.Y, leaf.Width - width, leaf.Height)

SplitGeometry ==
    /\ TwoOrNone(root)
    /\ InsertSucceeded =>
          /\ Cardinality(Splits(last.pre.root, root)) = 1
          /\ \A s \in Splits(last.pre.root, root) :
                /\ IsInterior(s[2])
                /\ IsLeaf(s[2].left[1])
                /\ IsLeaf(s[2].right[1])
                /\ RectOf(s[2].left[1])
                   = ClaimedLeft(s[1], last.width, last.height)
                /\ RectOf(s[2].right[1])
                   = ClaimedRight(s[1], last.width, last.height)

\* A rectangle of positive area has been cut out of a leaf it fills in
\* width but not in height (restW = 0 < restH), which made a left child of
\* zero area, in a tree where an earlier tie had been cut vertically.
SplitGeometryWitness ==
    /\ InsertSucceeded
    /\ Area(last.rect) > 0
    /\ Len(returned) >= 2
    /\ \E s \in Splits(last.pre.root, root) :
          /\ s[1].Width - last.width = 0
          /\ s[1].Height - last.height > 0
          /\ Area(RectOf(s[2].left[1])) = 0
    /\ IsInterior(last.pre.root)
    /\ last.pre.root.Width = last.pre.root.Height
    /\ last.pre.root.Width >= 1
    /\ RectOf(last.pre.root.right[1]).Height = last.pre.binHeight

(***************************************************************************)
(* C14: in every reachable state the rects of all nodes of the tree (the   *)
(* occupied rects of the interior nodes and the free rects of the leaves)  *)
(* pairwise share no positive area, and their areas sum to                 *)
(* binWidth*binHeight.  The code breaks it: the root that Enlarge builds   *)
(* has the whole new bin as its rect, which covers both of its children.   *)
(***************************************************************************)
\* The rects of the nodes below n, in pre-order.
RECURSIVE Rects(_)
Rects(n) ==
    <<RectOf(n)>>
    \o (IF n.left # NIL THEN Rects(n.left[1]) ELSE <<>>)
    \o (IF n.right # NIL THEN Rects(n.right[1]) ELSE <<>>)

Tiles(rs, width, height) ==
    /\ \A i \in 1..Len(rs) : \A j \in (i + 1)..Len(rs) :
          ~SharePositiveArea(rs[i], rs[j])
    /\ SumArea(rs) = width * height

TreeTilesBin == Tiles(Rects(root), binWidth, binHeight)

(***************************************************************************)
(* C15: a successful Insert changes exactly one existing node, the chosen  *)
(* leaf: its Width and Height become the requested size and it gets two    *)
(* new leaf children; its X and Y, the rect and children of every other    *)
(* node, and binWidth and binHeight are unchanged.  So the rectangles      *)
(* returned since the last Enlarge stay the rects of interior nodes.       *)
(***************************************************************************)
\* after is before with one leaf turned into an interior node of size
\* width x height at the leaf's place, and nothing else changed.
RECURSIVE OneLeafSplit(_, _, _, _)
OneLeafSplit(before, after, width, height) ==
    IF IsLeaf(before)
    THEN /\ after.X = before.X
         /\ after.Y = before.Y
         /\ after.Width = width
         /\ after.Height = height
         /\ IsInterior(after)
         /\ IsLeaf(after.left[1])
         /\ IsLeaf(after.right[1])
    ELSE /\ RectOf(after) = RectOf(before)
         /\ IsInterior(before)
         /\ IsInterior(after)
         /\ \/ /\ after.left = before.left
               /\ OneLeafSplit(before.right[1], after.right[1], width, height)
            \/ /\ after.right = before.right
               /\ OneLeafSplit(before.left[1], after.left[1], width, height)

\* The rects of the interior nodes below n.
RECURSIVE InteriorRects(_)
InteriorRects(n) ==
    IF IsLeaf(n) THEN {}
    ELSE {RectOf(n)}
         \cup (IF n.left # NIL THEN InteriorRects(n.left[1]) ELSE {})
         \cup (IF n.right # NIL THEN InteriorRects(n.right[1]) ELSE {})

InsertFrame ==
    /\ InsertSucceeded =>
          /\ binWidth = last.pre.binWidth
          /\ binHeight = last.pre.binHeight
          /\ OneLeafSplit(last.pre.root, root, last.width, last.height)
          /\ InteriorRects(last.pre.root) \subseteq InteriorRects(root)
    /\ \A i \in (enlarged.at + 1)..Len(returned) :
          returned[i] \in InteriorRects(root)

\* The third successful Insert in a row has passed over a leaf that was
\* too small and split a later one.
InsertFrameWitness ==
    /\ InsertSucceeded
    /\ Len(returned) >= 3
    /\ enlarged.count = 0
    /\ Chosen > 1
    /\ Area(last.rect) > 0

(***************************************************************************)
(* C16: for a bin constructed with non-negative dimensions, after any      *)
(* Insert and Enlarge calls with arbitrary integer arguments, negative     *)
(* ones included, every node rect of the tree and every Rect returned by   *)
(* Insert has X, Y, Width and Height >= 0.  The code breaks it: insert     *)
(* checks only width > n.Width and height > n.Height, so a negative size   *)
(* fits every leaf and is stored.  Checked under SpecInt.                  *)
(***************************************************************************)
NonNegative(r) == r.X >= 0 /\ r.Y >= 0 /\ r.Width >= 0 /\ r.Height >= 0

NonNegativeRects ==
    /\ \A i \in 1..Len(Rects(root)) : NonNegative(Rects(root)[i])
    /\ \A i \in 1..Len(returned) : NonNegative(returned[i])

(***************************************************************************)
(* C17: Enlarge called with exactly the current size returns no error and  *)
(* replaces the root by an interior node whose two leaf children have zero *)
(* area; afterwards every Insert(w,h) with w >= 1 and h >= 1 fails, even   *)
(* if the bin was completely empty before the call.                        *)
(***************************************************************************)
\* The last successful Enlarge kept the size of the bin.
EnlargedToSameSize ==
    /\ enlarged.count > 0
    /\ enlarged.oldWidth = binWidth
    /\ enlarged.oldHeight = binHeight

EnlargeSameSize ==
    /\ (/\ last.op = "Enlarge"
        /\ last.width = last.pre.binWidth
        /\ last.height = last.pre.binHeight)
       => /\ last.err = ErrNil
          /\ IsInterior(root)
          /\ IsLeaf(root.left[1])
          /\ IsLeaf(root.right[1])
          /\ Area(RectOf(root.left[1])) = 0
          /\ Area(RectOf(root.right[1])) = 0
          /\ \A i \in 1..Len(Leaves(root)) : Area(Leaves(root)[i]) = 0
    /\ (/\ EnlargedToSameSize
        /\ last.op = "Insert"
        /\ last.width >= 1
        /\ last.height >= 1)
       => last.err = ErrNoMoreSpace

\* A bin of positive area that was completely empty has been enlarged to
\* its own size and has then refused an Insert that is no larger than the
\* bin.
EnlargeSameSizeWitness ==
    /\ EnlargedToSameSize
    /\ enlarged.count = 1
    /\ returned = <<>>
    /\ binWidth * binHeight > 0
    /\ InsertFailed
    /\ last.width >= 1
    /\ last.height >= 1
    /\ last.width <= binWidth
    /\ last.height <= binHeight

(***************************************************************************)
(* C18, as the specification states it: in every reachable state the depth *)
(* of the tree (the number of edges on the longest path from the root to a *)
(* leaf) is at most the number of successful Insert calls made so far.     *)
(***************************************************************************)
RECURSIVE Depth(_)
Depth(n) ==
    IF IsLeaf(n) THEN 0
    ELSE 1 + Max(IF n.left # NIL THEN Depth(n.left[1]) ELSE 0,
                 IF n.right # NIL THEN Depth(n.right[1]) ELSE 0)

DepthAsStated == Depth(root) <= Len(returned)

(***************************************************************************)
(* C18, amended: Enlarge adds a level of its own.  In every reachable      *)
(* state the depth of the tree is at most the number of successful Insert  *)
(* calls made since the last successful Enlarge, plus one if an Enlarge    *)
(* has succeeded (so at most the number of successful Inserts plus one),   *)
(* and the tree has exactly one node plus two per such call; insert and    *)
(* usedArea visit each node of this finite tree at most once and so        *)
(* terminate, and Enlarge has no loop.                                     *)
(***************************************************************************)
RECURSIVE NodeCount(_)
NodeCount(n) ==
    1 + (IF n.left # NIL THEN NodeCount(n.left[1]) ELSE 0)
      + (IF n.right # NIL THEN NodeCount(n.right[1]) ELSE 0)

\* The calls that have added nodes to the present tree: the last successful
\* Enlarge, if any, and the successful Inserts since.
Growths ==
    (Len(returned) - enlarged.at) + (IF enlarged.count > 0 THEN 1 ELSE 0)

DepthBound ==
    /\ Depth(root) <= Growths
    /\ Growths <= Len(returned) + 1
    /\ NodeCount(root) = 1 + 2 * Growths

\* After an Enlarge and an Insert the tree is deeper than the number of
\* successful Inserts, and as deep as the amended bound allows.
DepthBoundWitness ==
    /\ enlarged.count > 0
    /\ Len(returned) >= 1
    /\ Depth(root) > Len(returned)
    /\ Depth(root) = Growths
    /\ Depth(root) >= 2

====
